---- MODULE Spec2Model ----
(***************************************************************************)
(* Collection task dispatcher of the worker                                *)
(* (src/src/worker/worker/collectors/collector_tasks.py).                  *)
(*                                                                         *)
(* Python values are modelled as follows.  An Optional value is a sequence *)
(* of length at most one: None is <<>>, a present value v is <<v>>.  A     *)
(* dict is a function from its keys, so a source without a "type" key is a *)
(* record without a type field.  Truthiness is computed as Python computes *)
(* it: None and the empty string are falsy.                                *)
(***************************************************************************)
EXTENDS Integers, Sequences, FiniteSets, TLC

VARIABLES
    cp,          \* control plane: source id -> Optional source dict
    collectors,  \* Collector.collectors, the registry: type tag -> fetcher
    tasks,       \* task messages of the queue, in order of enqueueing
    users,       \* rows of the user table, in order of insertion
    imported,    \* the last call of User.import_users: argument and outcome
    updating     \* the last call of User.update: position and outcome

vars == <<cp, collectors, tasks, users, imported, updating>>

-----------------------------------------------------------------------------
(* Bounds of the model *)

MaxTasks == 2

NumWorkers == 2

-----------------------------------------------------------------------------
(* Bounds of the user import *)

MaxImportLen == 2

-----------------------------------------------------------------------------
(* Program constants *)

max_retries == 3

SkipSentinel == "Last-Modified < Last-Attempted"

\* CollectorTask sets no autoretry_for: the set of exception types the queue
\* retries on its own is the base Task's default, the empty set.
autoretry_for == {}

-----------------------------------------------------------------------------
(* Python values *)

None == <<>>

Some(v) == <<v>>

\* bool(x) of an Optional[str]
Truthy(o) == o # None /\ o[1] # ""

\* bool(x) of an Optional[dict]
TruthyDict(o) == o # None /\ DOMAIN o[1] # {}

\* bool(x) of an Optional[object] whose class defines neither __bool__ nor
\* __len__
TruthyObj(o) == o # None

ConnectionError(args) == [type |-> "ConnectionError", args |-> args]

\* str(e) of an exception: the empty string without arguments, str of the
\* argument when there is one
str(e) == IF e.args = <<>> THEN "" ELSE e.args[1]

\* dict.get(key) of a dict of strings
DictGet(d, key) == IF key \in DOMAIN d THEN Some(d[key]) ELSE None

-----------------------------------------------------------------------------
(* Inputs *)

SourceIds == {"s1", "s3", "s4", "s5"}

\* the configurations the control plane holds at start
InitialSources ==
    [s1 |-> Some([id |-> "s1", type |-> "rss_collector"]),
     s3 |-> None,
     s4 |-> Some([id |-> "s4", type |-> "unknown_type"]),
     s5 |-> Some([id |-> "s5"])]

\* argument tuples of a ConnectionError raised by the transport
ConnErrArgs == {<<"">>, <<"Connection refused">>}

\* values a fetcher's collect returns: None on success, else a message
FetchReturns == {None, Some(""), Some(SkipSentinel), Some("HTTP 404")}

\* values a fetcher's preview_collector returns
PreviewReturns == {Some("items"), Some("HTTP 404")}

TaskKinds == {"collector_task", "collector_preview"}

-----------------------------------------------------------------------------
(* Control-Plane Client (worker.core_api.CoreApi) *)

Returned(v) == [raised |-> FALSE, value |-> v, exc |-> None]

Raised(e) == [raised |-> TRUE, value |-> None, exc |-> Some(e)]

\* get_osint_source(source_id): the source, None, or a transport error
get_osint_source(source_id) ==
    {Returned(cp[source_id])}
        \cup {Raised(ConnectionError(a)) : a \in ConnErrArgs}

\* update_osintsource_status(source_id, body): delivered, not delivered
\* (returns None), or a transport error
update_osintsource_status ==
    {Returned(Some("ok")), Returned(None)}
        \cup {Raised(ConnectionError(a)) : a \in {<<"Connection refused">>}}

\* run_post_collection_bots(source_id): accepted, or a transport error
run_post_collection_bots ==
    {Returned(Some("ok"))}
        \cup {Raised(ConnectionError(a)) : a \in {<<"Connection refused">>}}

-----------------------------------------------------------------------------
(* Collector *)

\* get_source with the not-found branch returning no message
get_source_NotFoundSilent(source_id, resp) ==
    IF resp.raised
    THEN <<None, Some(str(resp.exc[1]))>>
    ELSE IF ~TruthyDict(resp.value)
         THEN <<None, None>>
         ELSE <<resp.value, None>>

\* Collector.get_source, given the response of core_api.get_osint_source
get_source(source_id, resp) ==
    IF resp.raised
    THEN <<None, Some(str(resp.exc[1]))>>
    ELSE IF ~TruthyDict(resp.value)
         THEN <<None, Some("Source with id " \o source_id \o " not found")>>
         ELSE <<resp.value, None>>

\* get_collector treating an absent type tag as a registry miss
get_collector_AbsentAsMiss(source) ==
    LET collector_type == DictGet(source, "type") IN
    IF Truthy(collector_type) /\ collector_type[1] \in DOMAIN collectors
    THEN <<Some(collectors[collector_type[1]]), None>>
    ELSE <<None, Some("Collector "
            \o (IF collector_type = None THEN "None" ELSE collector_type[1])
            \o " not implemented")>>

\* get_collector falling back to the first registered fetcher on a miss
get_collector_Fallback(source) ==
    LET collector_type == DictGet(source, "type") IN
    IF ~Truthy(collector_type)
    THEN <<None, Some("Source " \o source.id \o " has no collector_type")>>
    ELSE IF collector_type[1] \in DOMAIN collectors
         THEN <<Some(collectors[collector_type[1]]), None>>
         ELSE <<Some(collectors["rss_collector"]), None>>

\* Collector.get_collector on a source dict
get_collector(source) ==
    LET collector_type == DictGet(source, "type") IN
    IF ~Truthy(collector_type)
    THEN <<None, Some("Source " \o source.id \o " has no collector_type")>>
    ELSE IF collector_type[1] \in DOMAIN collectors
         THEN <<Some(collectors[collector_type[1]]), None>>
         ELSE <<None, Some("Collector " \o collector_type[1] \o " not implemented")>>

\* collect_by_source_id resolving from the configuration read at start, not
\* from the response of this execution's config fetch
collect_by_source_id_resolve_Cached(source_id, resp) ==
    LET s == get_source(source_id,
                IF resp.raised THEN resp ELSE Returned(InitialSources[source_id]))
    IN
    IF Truthy(s[2]) \/ ~TruthyDict(s[1])
    THEN [returned |-> TRUE, value |-> s[2], source |-> None, collector |-> None]
    ELSE LET c == get_collector(s[1][1]) IN
         IF Truthy(c[2]) \/ ~TruthyObj(c[1])
         THEN [returned |-> TRUE, value |-> c[2], source |-> None, collector |-> None]
         ELSE [returned |-> FALSE, value |-> None, source |-> s[1], collector |-> c[1]]

\* collect_by_source_id returning None, not err, on a registry miss
collect_by_source_id_resolve_DropsErr(source_id, resp) ==
    LET s == get_source(source_id, resp) IN
    IF Truthy(s[2]) \/ ~TruthyDict(s[1])
    THEN [returned |-> TRUE, value |-> s[2], source |-> None, collector |-> None]
    ELSE LET c == get_collector(s[1][1]) IN
         IF Truthy(c[2]) \/ ~TruthyObj(c[1])
         THEN [returned |-> TRUE, value |-> None, source |-> None, collector |-> None]
         ELSE [returned |-> FALSE, value |-> None, source |-> s[1], collector |-> c[1]]

\* Collector.collect_by_source_id up to the fetcher's call (lines 43-51):
\* either it returns a value, or it goes on with a source and its fetcher
collect_by_source_id_resolve(source_id, resp) ==
    LET s == get_source(source_id, resp) IN
    IF Truthy(s[2]) \/ ~TruthyDict(s[1])
    THEN [returned |-> TRUE, value |-> s[2], source |-> None, collector |-> None]
    ELSE LET c == get_collector(s[1][1]) IN
         IF Truthy(c[2]) \/ ~TruthyObj(c[1])
         THEN [returned |-> TRUE, value |-> c[2], source |-> None, collector |-> None]
         ELSE [returned |-> FALSE, value |-> None, source |-> s[1], collector |-> c[1]]

\* collect_by_source_id without the comparison with the skip sentinel
collect_by_source_id_outcome_NoSkip(err) ==
    IF Truthy(err)
    THEN [report |-> TRUE, value |-> err]
    ELSE [report |-> FALSE, value |-> None]

\* Collector.collect_by_source_id on the value collect returned (lines 53-59):
\* return a value at once, or report the error to the control plane first
collect_by_source_id_outcome(err) ==
    IF Truthy(err)
    THEN IF err[1] = SkipSentinel
         THEN [report |-> FALSE, value |-> Some("Skipping source")]
         ELSE [report |-> TRUE, value |-> err]
    ELSE [report |-> FALSE, value |-> None]

\* run never returning the dispatch value, always going on to the trigger
run_returns_err_Never(err) == FALSE

\* CollectorTask.run on the value of collect_by_source_id (lines 76-77): TRUE
\* when run returns that value, FALSE when it goes on to the downstream trigger
run_returns_err(err) == Truthy(err)

\* CollectorTask.run, the value returned after the downstream trigger (line 79)
run_success(source_id) == Some("Succesfully collected source " \o source_id)

\* collector_preview up to the fetcher's call (lines 84-90)
collector_preview_resolve(source_id, resp) ==
    LET s == get_source(source_id, resp) IN
    IF Truthy(s[2]) \/ ~TruthyDict(s[1])
    THEN [returned |-> TRUE, value |-> s[2], source |-> None, collector |-> None]
    ELSE LET c == get_collector(s[1][1]) IN
         IF Truthy(c[2]) \/ ~TruthyObj(c[1])
         THEN [returned |-> TRUE, value |-> c[2], source |-> None, collector |-> None]
         ELSE [returned |-> FALSE, value |-> None, source |-> s[1], collector |-> c[1]]

-----------------------------------------------------------------------------
(* Task queue *)

\* no task acknowledged late
acks_late_Never(kind) == FALSE

\* acks_late of a task: set for collector_preview (line 82), left at the
\* default, False, by CollectorTask (lines 62-68)
acks_late(kind) == kind = "collector_preview"

\* a call made during an execution, as the callee sees it
Call(op, source_id, collector, manual, body, resp) ==
    [op |-> op, source_id |-> source_id, collector |-> collector,
     manual |-> manual, body |-> body,
     raised |-> resp.raised, value |-> resp.value, exc |-> resp.exc]

\* a task message as enqueued
NewTask(kind, source_id, manual) ==
    [kind |-> kind, source_id |-> source_id, manual |-> manual,
     pc |-> "pending", source |-> None, collector |-> None, err |-> None,
     result |-> None, exc |-> None, trace |-> <<>>,
     executions |-> 0, retries |-> 0]

Running(t) == tasks[t].pc \notin {"pending", "raised", "done", "lost"}

NumRunning == Cardinality({t \in DOMAIN tasks : Running(t)})

\* the task returns value: its execution is complete
Complete(task, value) == [task EXCEPT !.pc = "done", !.result = value]

\* CollectorTask.run once collect_by_source_id has returned err (lines 76-78)
run_after_dispatch(task, err) ==
    IF run_returns_err(err)
    THEN Complete(task, err)
    ELSE [task EXCEPT !.pc = "trigger"]

\* the scheduler or a user enqueues a task (apply_async)
Enqueue ==
    /\ Len(tasks) < MaxTasks
    /\ \E kind \in TaskKinds, source_id \in SourceIds, manual \in BOOLEAN :
        /\ kind = "collector_preview" => manual = FALSE
        /\ tasks' = Append(tasks, NewTask(kind, source_id, manual))
    /\ UNCHANGED <<cp, collectors, users, imported, updating>>

\* a worker starting a task only when no other execution for the same source
\* is running
Start_PerSourceLock(t) ==
    /\ tasks[t].pc = "pending"
    /\ NumRunning < NumWorkers
    /\ \A u \in DOMAIN tasks :
        Running(u) => tasks[u].source_id # tasks[t].source_id
    /\ tasks' = [tasks EXCEPT ![t] =
            [@ EXCEPT !.pc = "get_source", !.trace = <<>>,
                      !.source = None, !.collector = None, !.err = None,
                      !.result = None, !.exc = None,
                      !.executions = @ + 1]]
    /\ UNCHANGED <<cp, collectors, users, imported, updating>>

\* a free worker takes a pending message and starts executing the task
Start(t) ==
    /\ tasks[t].pc = "pending"
    /\ NumRunning < NumWorkers
    /\ tasks' = [tasks EXCEPT ![t] =
            [@ EXCEPT !.pc = "get_source", !.trace = <<>>,
                      !.source = None, !.collector = None, !.err = None,
                      !.result = None, !.exc = None,
                      !.executions = @ + 1]]
    /\ UNCHANGED <<cp, collectors, users, imported, updating>>

\* collect_by_source_id registering the first fetcher under a type tag that
\* misses the registry
CollectGetSource_Registers(t) ==
    /\ tasks[t].kind = "collector_task"
    /\ tasks[t].pc = "get_source"
    /\ \E resp \in get_osint_source(tasks[t].source_id) :
        LET d == collect_by_source_id_resolve(tasks[t].source_id, resp)
            called == [tasks[t] EXCEPT !.trace = Append(@,
                Call("get_osint_source", tasks[t].source_id, None, FALSE,
                     None, resp))]
            missed == /\ ~resp.raised
                      /\ TruthyDict(resp.value)
                      /\ Truthy(DictGet(resp.value[1], "type"))
                      /\ resp.value[1].type \notin DOMAIN collectors
        IN /\ tasks' = [tasks EXCEPT ![t] =
                IF d.returned
                THEN run_after_dispatch(called, d.value)
                ELSE [called EXCEPT !.pc = "collect", !.source = d.source,
                                    !.collector = d.collector]]
           /\ collectors' =
                IF missed
                THEN [k \in DOMAIN collectors \cup {resp.value[1].type} |->
                        IF k \in DOMAIN collectors THEN collectors[k]
                        ELSE "RSSCollector"]
                ELSE collectors
    /\ UNCHANGED <<cp, users, imported, updating>>

\* CollectorTask.run -> collect_by_source_id, from its start to the fetcher's
\* call or to its return
CollectGetSource(t) ==
    /\ tasks[t].kind = "collector_task"
    /\ tasks[t].pc = "get_source"
    /\ \E resp \in get_osint_source(tasks[t].source_id) :
        LET d == collect_by_source_id_resolve(tasks[t].source_id, resp)
            called == [tasks[t] EXCEPT !.trace = Append(@,
                Call("get_osint_source", tasks[t].source_id, None, FALSE,
                     None, resp))]
        IN tasks' = [tasks EXCEPT ![t] =
                IF d.returned
                THEN run_after_dispatch(called, d.value)
                ELSE [called EXCEPT !.pc = "collect", !.source = d.source,
                                    !.collector = d.collector]]
    /\ UNCHANGED <<cp, collectors, users, imported, updating>>

\* collector.collect(source, manual) returns, and collect_by_source_id
\* interprets the value
Collect(t) ==
    /\ tasks[t].pc = "collect"
    /\ \E err \in FetchReturns :
        LET o == collect_by_source_id_outcome(err)
            called == [tasks[t] EXCEPT !.trace = Append(@,
                Call("collect", tasks[t].source[1].id, tasks[t].collector,
                     tasks[t].manual, None, Returned(err)))]
        IN tasks' = [tasks EXCEPT ![t] =
                IF o.report
                THEN [called EXCEPT !.pc = "update_status", !.err = o.value]
                ELSE run_after_dispatch(called, o.value)]
    /\ UNCHANGED <<cp, collectors, users, imported, updating>>

\* core_api.update_osintsource_status(source_id, {"error": err}), then
\* return err (lines 56-57)
UpdateStatus(t) ==
    /\ tasks[t].pc = "update_status"
    /\ \E resp \in update_osintsource_status :
        LET called == [tasks[t] EXCEPT !.trace = Append(@,
                Call("update_osintsource_status", tasks[t].source_id, None,
                     FALSE, Some([error |-> tasks[t].err[1]]), resp))]
        IN tasks' = [tasks EXCEPT ![t] =
                IF resp.raised
                THEN [called EXCEPT !.pc = "raised", !.exc = resp.exc]
                ELSE run_after_dispatch(called, tasks[t].err)]
    /\ UNCHANGED <<cp, collectors, users, imported, updating>>

\* core_api.run_post_collection_bots(source_id), then the success message
\* (lines 78-79)
Trigger(t) ==
    /\ tasks[t].pc = "trigger"
    /\ \E resp \in run_post_collection_bots :
        LET called == [tasks[t] EXCEPT !.trace = Append(@,
                Call("run_post_collection_bots", tasks[t].source_id, None,
                     FALSE, None, resp))]
        IN tasks' = [tasks EXCEPT ![t] =
                IF resp.raised
                THEN [called EXCEPT !.pc = "raised", !.exc = resp.exc]
                ELSE Complete(called, run_success(tasks[t].source_id))]
    /\ UNCHANGED <<cp, collectors, users, imported, updating>>

\* an exception left run: the queue re-enqueues the task when the exception
\* is one it retries on its own and retries remain, else the task has failed
OnFailure(t) ==
    /\ tasks[t].pc = "raised"
    /\ tasks' = [tasks EXCEPT ![t] =
            IF tasks[t].exc[1].type \in autoretry_for
                    /\ tasks[t].retries < max_retries
            THEN [@ EXCEPT !.pc = "pending", !.retries = @ + 1]
            ELSE [@ EXCEPT !.pc = "done"]]
    /\ UNCHANGED <<cp, collectors, users, imported, updating>>

\* collector_preview handing the dispatch value to run's flow (lines 76-78)
PreviewGetSource_ViaRun(t) ==
    /\ tasks[t].kind = "collector_preview"
    /\ tasks[t].pc = "get_source"
    /\ \E resp \in get_osint_source(tasks[t].source_id) :
        LET d == collector_preview_resolve(tasks[t].source_id, resp)
            called == [tasks[t] EXCEPT !.trace = Append(@,
                Call("get_osint_source", tasks[t].source_id, None, FALSE,
                     None, resp))]
        IN tasks' = [tasks EXCEPT ![t] =
                IF d.returned
                THEN run_after_dispatch(called, d.value)
                ELSE [called EXCEPT !.pc = "preview", !.source = d.source,
                                    !.collector = d.collector]]
    /\ UNCHANGED <<cp, collectors, users, imported, updating>>

\* collector_preview, from its start to the fetcher's call or to its return
PreviewGetSource(t) ==
    /\ tasks[t].kind = "collector_preview"
    /\ tasks[t].pc = "get_source"
    /\ \E resp \in get_osint_source(tasks[t].source_id) :
        LET d == collector_preview_resolve(tasks[t].source_id, resp)
            called == [tasks[t] EXCEPT !.trace = Append(@,
                Call("get_osint_source", tasks[t].source_id, None, FALSE,
                     None, resp))]
        IN tasks' = [tasks EXCEPT ![t] =
                IF d.returned
                THEN Complete(called, d.value)
                ELSE [called EXCEPT !.pc = "preview", !.source = d.source,
                                    !.collector = d.collector]]
    /\ UNCHANGED <<cp, collectors, users, imported, updating>>

\* collector.preview_collector(source) returns and is the task's result
Preview(t) ==
    /\ tasks[t].pc = "preview"
    /\ \E r \in PreviewReturns :
        LET called == [tasks[t] EXCEPT !.trace = Append(@,
                Call("preview_collector", tasks[t].source[1].id,
                     tasks[t].collector, FALSE, None, Returned(r)))]
        IN tasks' = [tasks EXCEPT ![t] = Complete(called, r)]
    /\ UNCHANGED <<cp, collectors, users, imported, updating>>

-----------------------------------------------------------------------------
(* User (src/src/core/core/model/user.py) *)

\* the largest primary key the user table hands out
MaxUserId == 2

\* a value secrets.token_urlsafe(16) returns
Tokens == {"tokenA"}

\* the ids of the rows of the organization table
Organizations == {1}

\* the ids of the rows of the role table
Roles == {1}

\* user records as User.export writes them (to_export_dict)
ExportedRecords == {[username |-> "alice", name |-> "Bob B"]}

\* user records that name every required parameter of User.__init__
FullRecords ==
    {[username |-> "alice", name |-> "Alice A", organization |-> 1,
      roles |-> <<1>>],
     [username |-> "bob", name |-> "Bob B", organization |-> 1,
      roles |-> <<1>>]}

\* the user records of an import list: they share a username and differ in
\* the name
UserRecords ==
    ExportedRecords \cup {r \in FullRecords : r.username = "alice"}

\* the lists of at most n user records
UserLists(n) == UNION {[1..k -> UserRecords] : k \in 0..n}

\* generate_password_hash(password): the stored value is not the password
\* and carries the salt drawn for this call
generate_password_hash(password, salt) ==
    [salt |-> salt, hash |-> "pbkdf2:" \o password]

\* the salts of the hashes that exist: those stored in the table and the one
\* a User.update holds for its commit
UsedSalts(db, pending) ==
    {db[i].password.salt : i \in DOMAIN db}
        \cup (IF "password" \in DOMAIN pending THEN {pending.password.salt}
              ELSE {})

\* the salt of a call of generate_password_hash: drawn at random, so not one
\* of an existing hash; the least such number stands for all of them
FreshSalt(db, pending) ==
    LET used == UsedSalts(db, pending) IN
    CHOOSE s \in 1..(Cardinality(used) + 1) :
        /\ s \notin used
        /\ \A r \in 1..(s - 1) : r \in used

\* find_by_name returning the first row of another username
find_by_name_Other(db, username) ==
    LET found == {i \in DOMAIN db : db[i].username # username} IN
    IF found = {} THEN None
    ELSE Some(db[CHOOSE i \in found : \A j \in found : i <= j])

\* User.find_by_name: the first row with this username, or None
find_by_name(db, username) ==
    LET found == {i \in DOMAIN db : db[i].username = username} IN
    IF found = {} THEN None
    ELSE Some(db[CHOOSE i \in found : \A j \in found : i <= j])

\* Organization.get(id): the id of the row, or None
Organization_get(organization) ==
    IF organization \in Organizations THEN Some(organization) ELSE None

\* Role.get_bulk(ids): the roles that exist, in the order asked
Role_get_bulk(roles) == SelectSeq(roles, LAMBDA r : r \in Roles)

\* the outcome of a call that builds or writes a row
Ok(db) == [raised |-> FALSE, exc |-> "", db |-> db]

Fail(exc, db) == [raised |-> TRUE, exc |-> exc, db |-> db]

\* BaseModel.from_dict(data) is cls(**data): the keys of data bind the
\* parameters of User.__init__ (lines 34-36); a required parameter without
\* a key and a key without a parameter are a TypeError
from_dict_binds(data) ==
    /\ {"username", "name", "organization", "roles"} \subseteq DOMAIN data
    /\ DOMAIN data \subseteq {"username", "name", "organization", "roles",
                              "permissions", "password", "id"}

\* User.__init__ refuses a password that is absent, None or empty
User_init_password(data) ==
    "password" \in DOMAIN data /\ data.password # ""

\* the instance User.__init__ builds: id is set when given and not 0, the
\* organization when it exists
User_init(data, salt) ==
    [id |-> IF "id" \in DOMAIN data /\ data.id # 0 THEN Some(data.id) ELSE None,
     username |-> data.username,
     name |-> data.name,
     password |-> generate_password_hash(data.password, salt),
     organization |-> Organization_get(data.organization),
     roles |-> Role_get_bulk(data.roles)]

\* the primary key the table gives a row inserted without one
NextId(db) ==
    IF db = <<>> THEN 1
    ELSE 1 + (CHOOSE m \in {db[i].id : i \in DOMAIN db} :
                \A i \in DOMAIN db : db[i].id <= m)

\* db.session.add(item); db.session.commit(): the insert fails on the unique
\* constraint of the username column (line 21) and on the primary key
commit_insert(db, item) ==
    IF \E i \in DOMAIN db : db[i].username = item.username
    THEN Fail("IntegrityError", db)
    ELSE IF item.id # None /\ \E i \in DOMAIN db : db[i].id = item.id[1]
    THEN Fail("IntegrityError", db)
    ELSE Ok(Append(db, [item EXCEPT !.id = IF item.id # None THEN item.id[1]
                                              ELSE NextId(db)]))

\* User.add(data)
add(db, data, salt) ==
    IF ~from_dict_binds(data) THEN Fail("TypeError", db)
    ELSE IF ~User_init_password(data) THEN Fail("ValueError", db)
    ELSE commit_insert(db, User_init(data, salt))

\* BaseModel.get(id): the position of the row with this id, or None
get(db, id) ==
    LET found == {i \in DOMAIN db : db[i].id = id} IN
    IF found = {} THEN None ELSE Some(CHOOSE i \in found : TRUE)

\* data.pop(key, None) is truthy, for a key that holds a string
PopsString(data, key) == key \in DOMAIN data /\ data[key] # ""

\* User.update up to its commit: the values the truthy fields of data set
\* on the loaded row
update_sets(data, salt) ==
    LET keys == {k \in {"password", "name", "username"} : PopsString(data, k)}
            \cup (IF "organization" \in DOMAIN data /\ data.organization # 0
                     /\ Organization_get(data.organization) # None
                  THEN {"organization"} ELSE {})
            \cup (IF "roles" \in DOMAIN data /\ data.roles # <<>>
                  THEN {"roles"} ELSE {})
    IN [k \in keys |->
            IF k = "password" THEN generate_password_hash(data.password, salt)
            ELSE IF k = "organization" THEN Organization_get(data.organization)
            ELSE IF k = "roles" THEN Role_get_bulk(data.roles)
            ELSE data[k]]

\* the columns of the loaded row the session holds a new value for: setting
\* an attribute to the value it was loaded with changes nothing; a password
\* is always a change, its hash has a salt of its own
update_changes(row, data, salt) ==
    LET sets == update_sets(data, salt) IN
    [k \in {c \in DOMAIN sets : sets[c] # row[c]} |-> sets[k]]

\* db.session.commit() of User.update: the changed columns are written to
\* the row that has the id now; no changed column writes nothing, no such
\* row is a StaleDataError, a username another row has an IntegrityError
update_commit(db, user_id, changes) ==
    LET user == get(db, user_id) IN
    IF DOMAIN changes = {} THEN Ok(db)
    ELSE IF user = None THEN Fail("StaleDataError", db)
    ELSE LET u == user[1]
             row == [k \in DOMAIN db[u] |->
                        IF k \in DOMAIN changes THEN changes[k]
                        ELSE db[u][k]]
         IN IF \E i \in DOMAIN db : i # u /\ db[i].username = row.username
            THEN Fail("IntegrityError", db)
            ELSE Ok([db EXCEPT ![u] = row])

\* User.delete(id): BaseModel.delete removes the row with this id
delete(db, id) == SelectSeq(db, LAMBDA row : row.id # id)

\* user["password"] = token
WithPassword(user, token) ==
    [k \in DOMAIN user \cup {"password"} |->
        IF k = "password" THEN token ELSE user[k]]

\* the data of the calls of User.add that are not made by import_users
AddData ==
    {WithPassword(r, p) : r \in FullRecords, p \in {"tokenA", ""}}

\* the data of the calls of User.update
UpdateData ==
    {[username |-> "bob"], [username |-> ""],
     [name |-> "Bob B", password |-> "tokenB"]}

\* User.import_users is called: result = []
ImportUsers ==
    /\ imported.pc \in {"idle", "returned", "raised"}
    /\ \E user_list \in UserLists(MaxImportLen) :
        imported' = [user_list |-> user_list, i |-> 1, pc |-> "find",
                     result |-> <<>>, exc |-> ""]
    /\ UNCHANGED <<cp, collectors, tasks, users, updating>>

\* the head of the loop: the list is exhausted and result is returned, or
\* the username of the next record is looked up and the record is skipped
\* when a row has it
ImportFind ==
    /\ imported.pc = "find"
    /\ IF imported.i > Len(imported.user_list)
       THEN imported' = [imported EXCEPT !.pc = "returned"]
       ELSE IF TruthyObj(find_by_name(users,
                            imported.user_list[imported.i].username))
       THEN imported' = [imported EXCEPT !.i = @ + 1]
       ELSE imported' = [imported EXCEPT !.pc = "add"]
    /\ UNCHANGED <<cp, collectors, tasks, users, updating>>

\* the record gets a password, written into the record of the list, and is
\* added in a transaction of its own; an exception of add leaves
\* import_users
ImportAdd ==
    /\ imported.pc = "add"
    /\ \E token \in Tokens :
        LET user == WithPassword(imported.user_list[imported.i], token)
            added == add(users, user, FreshSalt(users, updating.changes))
        IN IF added.raised
           THEN /\ imported' = [imported EXCEPT
                        !.user_list[imported.i] = user,
                        !.pc = "raised",
                        !.exc = added.exc]
                /\ UNCHANGED users
           ELSE /\ NextId(users) <= MaxUserId
                /\ users' = added.db
                /\ imported' = [imported EXCEPT
                        !.user_list[imported.i] = user,
                        !.result = Append(@, [username |-> user.username,
                                              password |-> user.password]),
                        !.i = @ + 1,
                        !.pc = "find"]
    /\ UNCHANGED <<cp, collectors, tasks, updating>>

\* another request calls User.add
UserAdd ==
    /\ \E data \in AddData :
        LET added == add(users, data, FreshSalt(users, updating.changes)) IN
        /\ added.raised \/ NextId(users) <= MaxUserId
        /\ users' = added.db
    /\ UNCHANGED <<cp, collectors, tasks, imported, updating>>

\* User.update is called: the row is loaded and the fields are set on it,
\* or there is no such row and 404 is returned
UserUpdate ==
    /\ updating.pc \in {"idle", "returned", "raised"}
    /\ \E user_id \in 1..MaxUserId, data \in UpdateData :
        LET user == get(users, user_id) IN
        updating' =
            IF ~TruthyObj(user)
            THEN [pc |-> "returned", user_id |-> user_id, changes |-> <<>>,
                  exc |-> "", status |-> 404]
            ELSE [pc |-> "loaded", user_id |-> user_id,
                  changes |-> update_changes(users[user[1]], data,
                                FreshSalt(users, updating.changes)),
                  exc |-> "", status |-> 0]
    /\ UNCHANGED <<cp, collectors, tasks, users, imported>>

\* the commit of User.update, after whatever other requests committed
UserUpdateCommit ==
    /\ updating.pc = "loaded"
    /\ LET committed == update_commit(users, updating.user_id,
                                      updating.changes)
       IN /\ users' = committed.db
          /\ updating' =
                IF committed.raised
                THEN [updating EXCEPT !.pc = "raised", !.changes = <<>>,
                                      !.exc = committed.exc]
                ELSE [updating EXCEPT !.pc = "returned", !.changes = <<>>,
                                      !.status = 200]
    /\ UNCHANGED <<cp, collectors, tasks, imported>>

\* another request calls User.delete
UserDelete ==
    /\ \E id \in 1..MaxUserId : users' = delete(users, id)
    /\ UNCHANGED <<cp, collectors, tasks, imported, updating>>

InitUsers ==
    /\ users = <<>>
    /\ imported = [user_list |-> <<>>, i |-> 1, pc |-> "idle",
                   result |-> <<>>, exc |-> ""]
    /\ updating = [pc |-> "idle", user_id |-> 0, changes |-> <<>>,
                   exc |-> "", status |-> 0]

-----------------------------------------------------------------------------

Init ==
    /\ cp = InitialSources
    /\ collectors = [rss_collector |-> "RSSCollector",
                     simple_web_collector |-> "SimpleWebCollector",
                     rt_collector |-> "RTCollector"]
    /\ tasks = <<>>
    /\ InitUsers

Next ==
    \/ Enqueue
    \/ \E t \in DOMAIN tasks : Start(t)
    \/ \E t \in DOMAIN tasks : CollectGetSource(t)
    \/ \E t \in DOMAIN tasks : Collect(t)
    \/ \E t \in DOMAIN tasks : UpdateStatus(t)
    \/ \E t \in DOMAIN tasks : Trigger(t)
    \/ \E t \in DOMAIN tasks : OnFailure(t)
    \/ \E t \in DOMAIN tasks : PreviewGetSource(t)
    \/ \E t \in DOMAIN tasks : Preview(t)

Spec == Init /\ [][Next]_vars

-----------------------------------------------------------------------------
(* The control plane changes the configuration of a source while tasks for  *)
(* that source are enqueued and executed.                                   *)

\* the source whose configuration changes
ChangingSource == "s1"

\* the configurations the control plane can hold for a source: none, a
\* registered type, an unregistered type, no type key, an empty type
SourceConfigs(source_id) ==
    {None,
     Some([id |-> source_id, type |-> "rss_collector"]),
     Some([id |-> source_id, type |-> "rt_collector"]),
     Some([id |-> source_id, type |-> "unknown_type"]),
     Some([id |-> source_id]),
     Some([id |-> source_id, type |-> ""])}

\* the control plane creates, updates or deletes the source
ControlPlaneChange ==
    /\ \E v \in SourceConfigs(ChangingSource) :
        /\ v # cp[ChangingSource]
        /\ cp' = [cp EXCEPT ![ChangingSource] = v]
    /\ UNCHANGED <<collectors, tasks, users, imported, updating>>

\* the scheduler enqueues a scheduled task for the changing source
EnqueueScheduled ==
    /\ Len(tasks) < MaxTasks
    /\ \E kind \in TaskKinds :
        tasks' = Append(tasks, NewTask(kind, ChangingSource, FALSE))
    /\ UNCHANGED <<cp, collectors, users, imported, updating>>

NextConfig ==
    \/ EnqueueScheduled
    \/ ControlPlaneChange
    \/ \E t \in DOMAIN tasks : Start(t)
    \/ \E t \in DOMAIN tasks : CollectGetSource(t)
    \/ \E t \in DOMAIN tasks : Collect(t)
    \/ \E t \in DOMAIN tasks : UpdateStatus(t)
    \/ \E t \in DOMAIN tasks : Trigger(t)
    \/ \E t \in DOMAIN tasks : OnFailure(t)
    \/ \E t \in DOMAIN tasks : PreviewGetSource(t)
    \/ \E t \in DOMAIN tasks : Preview(t)

SpecConfig == Init /\ [][NextConfig]_vars

-----------------------------------------------------------------------------
(* Workers crash while they execute a task.                                 *)

MaxCrashes == 1

\* the worker executing t dies: a message acknowledged late was not yet
\* acknowledged and the broker delivers it again, a message acknowledged
\* when the worker took it is gone
Crash(t) ==
    /\ Running(t)
    /\ tasks[t].executions <= MaxCrashes
    /\ tasks' = [tasks EXCEPT ![t] =
            IF acks_late(tasks[t].kind)
            THEN [@ EXCEPT !.pc = "pending"]
            ELSE [@ EXCEPT !.pc = "lost"]]
    /\ UNCHANGED <<cp, collectors, users, imported, updating>>

NextCrash ==
    \/ EnqueueScheduled
    \/ \E t \in DOMAIN tasks : Crash(t)
    \/ \E t \in DOMAIN tasks : Start(t)
    \/ \E t \in DOMAIN tasks : CollectGetSource(t)
    \/ \E t \in DOMAIN tasks : Collect(t)
    \/ \E t \in DOMAIN tasks : UpdateStatus(t)
    \/ \E t \in DOMAIN tasks : Trigger(t)
    \/ \E t \in DOMAIN tasks : OnFailure(t)
    \/ \E t \in DOMAIN tasks : PreviewGetSource(t)
    \/ \E t \in DOMAIN tasks : Preview(t)

SpecCrash == Init /\ [][NextCrash]_vars

-----------------------------------------------------------------------------
(* The core imports lists of users while other requests write the table.   *)

NextUsers ==
    \/ ImportUsers
    \/ ImportFind
    \/ ImportAdd
    \/ UserAdd
    \/ UserUpdate
    \/ UserUpdateCommit
    \/ UserDelete

SpecUsers == Init /\ [][NextUsers]_vars

-----------------------------------------------------------------------------
(* Vocabulary of the properties *)

CollectorTasks == {t \in DOMAIN tasks : tasks[t].kind = "collector_task"}

\* positions in the trace of execution t of the calls of op
CallsOf(t, op) == {i \in DOMAIN tasks[t].trace : tasks[t].trace[i].op = op}

NumCalls(t, op) == Cardinality(CallsOf(t, op))

CallAt(t, i) == tasks[t].trace[i]

\* the config fetch of execution t returned a source
FetchedSource(t) ==
    \E g \in CallsOf(t, "get_osint_source") :
        ~CallAt(t, g).raised /\ TruthyDict(CallAt(t, g).value)

\* the config fetch of execution t returned no source
FetchedNothing(t) ==
    \E g \in CallsOf(t, "get_osint_source") :
        ~CallAt(t, g).raised /\ CallAt(t, g).value = None

\* the config fetch of execution t raised a transport error
FetchRaised(t) ==
    \E g \in CallsOf(t, "get_osint_source") : CallAt(t, g).raised

\* the config fetch of execution t returned a source whose type tag is
\* present and is not a key of the registry
FetchedUnknownType(t) ==
    \E g \in CallsOf(t, "get_osint_source") :
        /\ ~CallAt(t, g).raised
        /\ TruthyDict(CallAt(t, g).value)
        /\ "type" \in DOMAIN CallAt(t, g).value[1]
        /\ CallAt(t, g).value[1].type # ""
        /\ CallAt(t, g).value[1].type \notin DOMAIN collectors

\* a fetcher's collect was called in execution t and reported success
CollectSucceeded(t) ==
    \E c \in CallsOf(t, "collect") :
        CallAt(t, c).collector # None /\ ~Truthy(CallAt(t, c).value)

\* a fetcher's collect was called in execution t and returned the skip
\* sentinel
CollectSkipped(t) ==
    \E c \in CallsOf(t, "collect") : CallAt(t, c).value = Some(SkipSentinel)

\* a fetcher's collect was called in execution t and returned an error that
\* is not the skip sentinel
CollectFailed(t) ==
    \E c \in CallsOf(t, "collect") :
        Truthy(CallAt(t, c).value) /\ CallAt(t, c).value # Some(SkipSentinel)

-----------------------------------------------------------------------------
(* C1: in every execution of the collection task a downstream-trigger call  *)
(* is issued only if, in that execution, the config fetch returned a        *)
(* source, a fetcher was resolved and its collect reported success.         *)
C1_TriggerOnlyAfterSuccess ==
    \A t \in CollectorTasks :
        NumCalls(t, "run_post_collection_bots") > 0
            => FetchedSource(t) /\ CollectSucceeded(t)

(* C2: for every fetcher error other than the skip sentinel, the dispatch   *)
(* issues exactly one status update {error: message} for the source id and  *)
(* returns the message, and the task issues no downstream trigger.          *)
C2_ErrorReportedAndReturned ==
    \A t \in CollectorTasks :
        CollectFailed(t) /\ tasks[t].pc = "done" =>
            /\ NumCalls(t, "update_osintsource_status") = 1
            /\ \A u \in CallsOf(t, "update_osintsource_status") :
                \A c \in CallsOf(t, "collect") :
                    /\ CallAt(t, u).source_id = tasks[t].source_id
                    /\ CallAt(t, u).body = Some([error |-> CallAt(t, c).value[1]])
                    /\ tasks[t].result = CallAt(t, c).value
            /\ NumCalls(t, "run_post_collection_bots") = 0

(* C3: when the fetcher returns the skip sentinel the collection task       *)
(* returns "Skipping source", issues no status update and no downstream     *)
(* trigger, and is not executed again.                                      *)
C3_SkipState ==
    \A t \in CollectorTasks :
        CollectSkipped(t) =>
            /\ tasks[t].pc = "done"
            /\ tasks[t].result = Some("Skipping source")
            /\ tasks[t].exc = None
            /\ NumCalls(t, "update_osintsource_status") = 0
            /\ NumCalls(t, "run_post_collection_bots") = 0
            /\ tasks[t].executions = 1
            /\ tasks[t].retries = 0

C3_SkipStep ==
    \A t \in CollectorTasks : CollectSkipped(t) => tasks'[t] = tasks[t]

C3_Skip == []C3_SkipState /\ [][C3_SkipStep]_vars

C3_Witness ==
    \E t \in CollectorTasks :
        /\ CollectSkipped(t)
        /\ tasks[t].pc = "done"
        /\ tasks[t].result = Some("Skipping source")

(* C4: when the fetcher reports success, one execution issues exactly one   *)
(* downstream trigger for the source id, no status update, and returns      *)
(* "Succesfully collected source <id>".                                     *)
C4_SuccessAlwaysReturns ==
    \A t \in CollectorTasks :
        CollectSucceeded(t) /\ tasks[t].pc = "done" =>
            /\ NumCalls(t, "run_post_collection_bots") = 1
            /\ \A r \in CallsOf(t, "run_post_collection_bots") :
                CallAt(t, r).source_id = tasks[t].source_id
            /\ NumCalls(t, "update_osintsource_status") = 0
            /\ tasks[t].result =
                Some("Succesfully collected source " \o tasks[t].source_id)

(* C5: when the control plane returns no source, dispatch returns           *)
(* "Source with id <id> not found", no fetcher is invoked, and no status    *)
(* update and no downstream trigger is issued.                              *)
C5_NotFound ==
    \A t \in CollectorTasks :
        FetchedNothing(t) =>
            /\ tasks[t].pc = "done"
            /\ tasks[t].result =
                Some("Source with id " \o tasks[t].source_id \o " not found")
            /\ NumCalls(t, "collect") = 0
            /\ NumCalls(t, "update_osintsource_status") = 0
            /\ NumCalls(t, "run_post_collection_bots") = 0

C5_Witness ==
    \E t \in CollectorTasks :
        /\ FetchedNothing(t)
        /\ tasks[t].source_id = "s3"
        /\ tasks[t].pc = "done"
        /\ tasks[t].result = Some("Source with id s3 not found")

(* C6: when the source's type tag is not a key of the registry, for both    *)
(* values of manual, dispatch returns "Collector <type> not implemented",   *)
(* no fetcher is invoked and no status update is issued.                    *)
C6_NotImplemented ==
    \A t \in CollectorTasks :
        FetchedUnknownType(t) =>
            /\ tasks[t].pc = "done"
            /\ \A g \in CallsOf(t, "get_osint_source") :
                tasks[t].result = Some("Collector "
                    \o CallAt(t, g).value[1].type \o " not implemented")
            /\ NumCalls(t, "collect") = 0
            /\ NumCalls(t, "update_osintsource_status") = 0

C6_Witness ==
    \E t, u \in CollectorTasks :
        /\ tasks[t].manual /\ ~tasks[u].manual
        /\ FetchedUnknownType(t) /\ FetchedUnknownType(u)
        /\ tasks[t].pc = "done" /\ tasks[u].pc = "done"
        /\ tasks[t].result = Some("Collector unknown_type not implemented")
        /\ tasks[u].result = Some("Collector unknown_type not implemented")

(* C7: when the config fetch raises a transport error, the result of the    *)
(* collection task is the stringified error, whatever its text, and no      *)
(* fetcher is invoked and no status update or downstream trigger is issued. *)
C7_TransportErrorIsResult ==
    \A t \in CollectorTasks :
        FetchRaised(t) =>
            /\ tasks[t].pc = "done" =>
                \A g \in CallsOf(t, "get_osint_source") :
                    tasks[t].result = Some(str(CallAt(t, g).exc[1]))
            /\ NumCalls(t, "collect") = 0
            /\ NumCalls(t, "update_osintsource_status") = 0
            /\ NumCalls(t, "run_post_collection_bots") = 0

(* C8: when the config fetch of a collection task raises a transport error, *)
(* the queue re-attempts the task and gives up only after 3 retries.        *)
C8_TransportErrorRetried ==
    \A t \in CollectorTasks :
        FetchRaised(t) /\ tasks[t].pc = "done" =>
            /\ tasks[t].retries = max_retries
            /\ tasks[t].executions = max_retries + 1

(* C9: a terminal outcome returned as a value (source not found, unknown    *)
(* collector type) completes the collection task at once with that failure  *)
(* message: the task is executed exactly once and never re-enqueued.        *)
C9_TerminalState ==
    \A t \in CollectorTasks :
        FetchedNothing(t) \/ FetchedUnknownType(t) =>
            /\ tasks[t].pc = "done"
            /\ tasks[t].exc = None
            /\ Truthy(tasks[t].result)
            /\ tasks[t].result # Some("Succesfully collected source "
                                        \o tasks[t].source_id)
            /\ Len(tasks[t].trace) = 1
            /\ tasks[t].executions = 1
            /\ tasks[t].retries = 0

C9_TerminalStep ==
    \A t \in CollectorTasks :
        FetchedNothing(t) \/ FetchedUnknownType(t) => tasks'[t] = tasks[t]

C9_TerminalNotRetried == []C9_TerminalState /\ [][C9_TerminalStep]_vars

C9_Witness ==
    \E t, u \in CollectorTasks :
        /\ FetchedNothing(t) /\ FetchedUnknownType(u)
        /\ tasks[t].pc = "done" /\ tasks[u].pc = "done"
        /\ tasks[t].executions = 1 /\ tasks[u].executions = 1

(* C10: when the delivery of the status update fails (the call raises or    *)
(* reports failure), the task does not fail because of it: dispatch still   *)
(* returns the fetcher's error message.                                     *)
C10_StatusUpdateBestEffort ==
    \A t \in CollectorTasks :
        \A u \in CallsOf(t, "update_osintsource_status") :
            (CallAt(t, u).raised \/ CallAt(t, u).value = None)
                    /\ tasks[t].pc = "done" =>
                /\ tasks[t].exc = None
                /\ tasks[t].result = tasks[t].err
                /\ Truthy(tasks[t].result)

(* C11: for every source and every outcome the preview task issues no      *)
(* downstream-trigger call and no status-update call, and the retry policy  *)
(* never re-attempts it.                                                    *)
PreviewTasks == {t \in DOMAIN tasks : tasks[t].kind = "collector_preview"}

C11_PreviewNoWrites ==
    \A t \in PreviewTasks :
        /\ NumCalls(t, "run_post_collection_bots") = 0
        /\ NumCalls(t, "update_osintsource_status") = 0
        /\ tasks[t].pc \notin {"update_status", "trigger", "raised"}
        /\ tasks[t].retries = 0

C11_Witness ==
    \E t, u \in PreviewTasks :
        /\ tasks[t].pc = "done" /\ tasks[u].pc = "done"
        /\ NumCalls(t, "preview_collector") = 1
        /\ FetchRaised(u)
        /\ tasks[u].result = Some("")

\* the config fetch of execution t returned a source whose type tag is
\* missing or empty
FetchedNoType(t) ==
    \E g \in CallsOf(t, "get_osint_source") :
        /\ ~CallAt(t, g).raised
        /\ TruthyDict(CallAt(t, g).value)
        /\ \/ "type" \notin DOMAIN CallAt(t, g).value[1]
           \/ CallAt(t, g).value[1].type = ""

(* C12 as stated: for a source whose type tag is missing or empty, dispatch *)
(* returns the "collector not implemented" error, the same as for a type    *)
(* tag that is not in the registry, and issues no status update.            *)
C12_AbsentTypeNotImplemented ==
    \A t \in CollectorTasks :
        FetchedNoType(t) =>
            /\ tasks[t].pc = "done"
            /\ \E ty \in {"", "None"} :
                tasks[t].result = Some("Collector " \o ty \o " not implemented")
            /\ NumCalls(t, "update_osintsource_status") = 0

(* C12 amended: for a source whose type tag is missing or empty, dispatch   *)
(* returns the terminal error "Source <id> has no collector_type", which is *)
(* not the "not implemented" error of a registry miss; no fetcher is        *)
(* invoked, no status update is issued and the task is not retried.         *)
C12_AbsentType ==
    \A t \in CollectorTasks :
        FetchedNoType(t) =>
            /\ tasks[t].pc = "done"
            /\ tasks[t].result =
                Some("Source " \o tasks[t].source_id \o " has no collector_type")
            /\ tasks[t].exc = None
            /\ NumCalls(t, "collect") = 0
            /\ NumCalls(t, "update_osintsource_status") = 0
            /\ NumCalls(t, "run_post_collection_bots") = 0
            /\ tasks[t].executions = 1
            /\ tasks[t].retries = 0

C12_Witness ==
    \E t, u \in CollectorTasks :
        /\ tasks[t].pc = "done" /\ tasks[u].pc = "done"
        /\ CallAt(t, 1).value = Some([id |-> "s1"])
        /\ CallAt(u, 1).value = Some([id |-> "s1", type |-> ""])
        /\ tasks[t].result = Some("Source s1 has no collector_type")
        /\ tasks[u].result = Some("Source s1 has no collector_type")

\* the execution of t is past its config fetch
PastFetch(t) == tasks[t].pc \notin {"pending", "get_source"}

\* the calls of execution t to a fetcher
FetcherCalls(t) == CallsOf(t, "collect") \cup CallsOf(t, "preview_collector")

(* C15: the dispatcher keeps no source configuration between executions:    *)
(* every execution makes exactly one config fetch, which returns what the   *)
(* control plane holds at that moment, and the fetcher called is the one    *)
(* the registry gives for the type of the snapshot of that execution, so a  *)
(* type change or a deletion is seen by the next execution.                 *)
C15_SnapshotState ==
    \A t \in DOMAIN tasks :
        PastFetch(t) =>
            /\ NumCalls(t, "get_osint_source") = 1
            /\ CallAt(t, 1).op = "get_osint_source"
            /\ CallAt(t, 1).source_id = tasks[t].source_id
            /\ \A c \in FetcherCalls(t) :
                /\ FetchedSource(t)
                /\ "type" \in DOMAIN CallAt(t, 1).value[1]
                /\ CallAt(t, 1).value[1].type \in DOMAIN collectors
                /\ CallAt(t, c).collector =
                    Some(collectors[CallAt(t, 1).value[1].type])
            /\ FetchedNothing(t) =>
                /\ tasks[t].pc = "done"
                /\ tasks[t].result =
                    Some("Source with id " \o tasks[t].source_id \o " not found")

C15_SnapshotStep ==
    \A t \in DOMAIN tasks :
        tasks[t].pc = "get_source" /\ tasks'[t].pc # "get_source" =>
            /\ Len(tasks'[t].trace) = 1
            /\ \/ tasks'[t].trace[1].raised
               \/ tasks'[t].trace[1].value = cp[tasks[t].source_id]

C15_NoCache == []C15_SnapshotState /\ [][C15_SnapshotStep]_vars

C15_Witness ==
    \E t, u \in DOMAIN tasks :
        /\ tasks[t].source_id = tasks[u].source_id
        /\ tasks[t].pc = "done" /\ tasks[u].pc = "done"
        /\ CallAt(t, 1).value = Some([id |-> "s1", type |-> "rss_collector"])
        /\ CallAt(u, 1).value = Some([id |-> "s1", type |-> "rt_collector"])
        /\ \E c \in FetcherCalls(t) : CallAt(t, c).collector = Some("RSSCollector")
        /\ \E c \in FetcherCalls(u) : CallAt(u, c).collector = Some("RTCollector")

(* C13: a collection task is executed at most 4 times, every exception      *)
(* raised out of dispatch leads to a re-attempt while retries remain, and   *)
(* the task ends in a terminal state from which it never runs again.        *)
C13_ExceptionsRetried ==
    \A t \in CollectorTasks :
        /\ tasks[t].executions <= max_retries + 1
        /\ tasks[t].pc = "done" /\ tasks[t].exc # None
                /\ NumCalls(t, "update_osintsource_status") = 1 =>
            tasks[t].retries = max_retries

(* C16: within one execution the config fetch comes first, the fetcher's    *)
(* call follows the selection made from it, and every status-update or      *)
(* downstream-trigger call comes after the fetcher's call has returned; no  *)
(* fetcher is invoked when the config fetch or the registry lookup failed.  *)
C16_CallOrder ==
    \A t \in DOMAIN tasks :
        /\ \A i \in DOMAIN tasks[t].trace :
            CallAt(t, i).op = "get_osint_source" <=> i = 1
        /\ \A c \in FetcherCalls(t) :
            /\ c = 2
            /\ FetchedSource(t)
            /\ CallAt(t, c).collector # None
        /\ \A w \in CallsOf(t, "update_osintsource_status")
                    \cup CallsOf(t, "run_post_collection_bots") :
            \E c \in FetcherCalls(t) : c < w /\ ~CallAt(t, c).raised

(* C18: the registry is left unchanged by every operation, for every       *)
(* interleaving of concurrent task executions: it is always the mapping     *)
(* built by Collector.__init__.                                             *)
C18_RegistryStep == collectors' = collectors

C18_RegistryUnchanged ==
    /\ [](/\ DOMAIN collectors =
                {"rss_collector", "simple_web_collector", "rt_collector"}
          /\ collectors["rss_collector"] = "RSSCollector"
          /\ collectors["simple_web_collector"] = "SimpleWebCollector"
          /\ collectors["rt_collector"] = "RTCollector")
    /\ [][C18_RegistryStep]_vars

C18_Witness ==
    \E t, u \in DOMAIN tasks :
        /\ t # u
        /\ tasks[t].pc = "done" /\ tasks[u].pc = "done"
        /\ FetchedUnknownType(t)
        /\ \E c \in FetcherCalls(u) : CallAt(u, c).collector = Some("RSSCollector")
        /\ NumCalls(u, "update_osintsource_status")
                + NumCalls(u, "run_post_collection_bots") = 1

(* C19: in every execution of the collection task at most one write call    *)
(* is made to the control plane: never both a status update and a           *)
(* downstream trigger, and neither more than once.                          *)
C19_AtMostOneWrite ==
    \A t \in CollectorTasks :
        NumCalls(t, "update_osintsource_status")
            + NumCalls(t, "run_post_collection_bots") <= 1

C19_Witness ==
    \E t, u \in CollectorTasks :
        /\ tasks[t].pc = "done" /\ tasks[u].pc = "done"
        /\ NumCalls(t, "update_osintsource_status") = 1
        /\ NumCalls(t, "run_post_collection_bots") = 0
        /\ NumCalls(u, "update_osintsource_status") = 0
        /\ NumCalls(u, "run_post_collection_bots") = 1

(* C14: there is no mutual exclusion per source: a pending task starts as   *)
(* soon as a worker is free, whatever other executions for the same source  *)
(* are running, and each execution issues its own control-plane calls, so   *)
(* two successful executions for a source yield two downstream triggers.    *)
C14_NoMutualExclusion ==
    /\ \A t \in DOMAIN tasks :
        tasks[t].pc = "pending" /\ NumRunning < NumWorkers => ENABLED Start(t)
    /\ \A t, u \in CollectorTasks :
        /\ t # u
        /\ tasks[t].source_id = tasks[u].source_id
        /\ tasks[t].pc = "done" /\ tasks[u].pc = "done"
        /\ tasks[t].result = run_success(tasks[t].source_id)
        /\ tasks[u].result = run_success(tasks[u].source_id)
        => NumCalls(t, "run_post_collection_bots")
                + NumCalls(u, "run_post_collection_bots") = 2

\* two executions for the same source are running at once
C14_BothRunning ==
    \E t, u \in CollectorTasks :
        /\ t # u
        /\ tasks[t].source_id = tasks[u].source_id
        /\ Running(t) /\ Running(u)
        /\ tasks[t].pc = "collect" /\ tasks[u].pc = "trigger"

(* C17: the message of a preview task is acknowledged only after the       *)
(* execution completes: when the worker crashes while the preview runs the  *)
(* message is delivered again and the preview can be executed again; the    *)
(* message of a collection task is acknowledged before the execution and a  *)
(* crash loses it: the task is not executed again.                          *)
C17_CrashState ==
    \A t \in DOMAIN tasks :
        /\ tasks[t].kind = "collector_task" => tasks[t].executions <= 1
        /\ tasks[t].pc = "lost" => tasks[t].kind = "collector_task"
        /\ tasks[t].kind = "collector_preview" /\ tasks[t].pc = "pending"
                /\ NumRunning < NumWorkers
            => ENABLED Start(t)

C17_CrashStep ==
    \A t \in DOMAIN tasks :
        /\ Running(t) /\ tasks'[t].pc \in {"pending", "lost"} =>
            IF tasks[t].kind = "collector_preview"
            THEN tasks'[t].pc = "pending"
            ELSE tasks'[t].pc = "lost"
        /\ tasks[t].pc = "lost" => tasks'[t] = tasks[t]

C17_LateAck == []C17_CrashState /\ [][C17_CrashStep]_vars

C17_Witness ==
    \E t, u \in DOMAIN tasks :
        /\ tasks[t].kind = "collector_preview"
        /\ tasks[t].executions = 2
        /\ tasks[t].pc = "done"
        /\ NumCalls(t, "preview_collector") = 1
        /\ tasks[u].kind = "collector_task"
        /\ tasks[u].pc = "lost"
        /\ tasks[u].executions = 1

\* the usernames stored in a user table
StoredNames(db) == {db[i].username : i \in DOMAIN db}

(* C20: after any sequence of User.import_users calls, on lists with        *)
(* repeated usernames too, no two stored users share a username; a record   *)
(* whose username is already stored is skipped: it is not added and is not  *)
(* in the returned credentials; import_users leaves the users stored before *)
(* unchanged.                                                               *)
C20_UniqueState ==
    \A i, j \in DOMAIN users :
        users[i].username = users[j].username => i = j

\* the step is one of import_users and r is the record it is at
C20_At(pc, r) ==
    /\ imported' # imported
    /\ imported.pc = pc
    /\ imported.i <= Len(imported.user_list)
    /\ r = imported.user_list[imported.i]

C20_ImportStep ==
    /\ imported' # imported =>
        /\ Len(users') >= Len(users)
        /\ SubSeq(users', 1, Len(users)) = users
        /\ Len(users') - Len(users) =
                IF imported'.pc = "find" /\ imported'.i = 1 THEN 0
                ELSE Len(imported'.result) - Len(imported.result)
    /\ \A r \in UserRecords :
        /\ (C20_At("find", r) /\ r.username \in StoredNames(users)) =>
                /\ imported'.pc = "find"
                /\ imported'.i = imported.i + 1
                /\ imported'.result = imported.result
                /\ users' = users
        /\ (C20_At("add", r) /\ r.username \in StoredNames(users)) =>
                /\ imported'.pc = "raised"
                /\ imported'.result = imported.result
                /\ users' = users
        /\ (C20_At("add", r) /\ users' # users) =>
                LET row == users'[Len(users')]
                    created == imported'.result[Len(imported'.result)]
                IN /\ row.username = r.username
                   /\ row.name = r.name
                   /\ created.username = r.username
                   /\ row.password = generate_password_hash(created.password,
                                                            row.password.salt)
                   /\ row.password.salt \notin UsedSalts(users, updating.changes)

====
